---- MODULE Spec2Model ----
(***************************************************************************)
(* Model of the bento kernel wrappers: the jbd2 Journal / Handle layer     *)
(* (bento/rust/src/kernel/journal.rs) and the kernel-object wrappers       *)
(* (bento/rust/src/kernel/kobj.rs, ffi.rs).  The host kernel is the        *)
(* environment: every value it returns is chosen nondeterministically.     *)
(***************************************************************************)
EXTENDS Integers, Sequences, FiniteSets, TLC

\* ------------------------------------------------------------ bounds
MaxCalls == 3        \* Handle method calls in one run, all Handles together
MaxWrappers == 3     \* kernel-object wrapper values alive or dropped
MaxReleases == 3     \* host release calls counted per resource
MaxLen == 3          \* length of the block list of the end-to-end scenario
MaxDestroys == 2     \* Journal::destroy calls in one run
MaxBytes == 6        \* length of the slice given to CStr::from_bytes_with_nul

Handles == {1, 2}                \* Handles, one per thread running an operation
Wrappers == 1..MaxWrappers
Blocks == {5, 7}                 \* block identifiers (bh.blocknr())
Budgets == {1, 3}                \* begin_op's `blocks` argument
HalfSpan == 65536                \* 2^16: a u32 is held as its 16-bit halves [hi, lo]
SignHalf == 32768                \* 2^15: hi >= SignHalf is bit 31 of the u32 set
HalfEdge == {0, 1, 2, 32767, 32768, 65535}
U32Edge == [hi : HalfEdge, lo : HalfEdge]  \* u32 values around 0, 2^31 and 2^32
Ptrs == {"null", "err", "valid"} \* what a pointer-returning host call yields
HostStatus == {0, -5}            \* i32 status of a host call: 0 or an errno
ByteVals == {0, 101, 104, 108, 111}  \* u8 values: nul and the letters of "hello"
ByteSeqs == UNION {[1..n -> ByteVals] : n \in 0..MaxBytes}
Kinds == {"buf", "sem", "wq"}    \* RsBufferHead, RsRwSemaphore, RsWaitQueueHead
Releasing == {"buf", "sem"}      \* the kinds that have a release method and a Drop impl

NoCall ==
  [h |-> 0, op |-> "none", b |-> 0, host |-> FALSE, hret |-> 0, ret |-> 0,
   report |-> FALSE, was |-> FALSE, rep |-> FALSE, phost |-> FALSE]

VARIABLES
  journal,    \* Journal::new's outcome: [opt, raw, initRet, loadRet]
  newCalls,   \* host calls Journal::new made, in order
  destroys,   \* ghost: host rs_jbd2_journal_destroy calls
  status,     \* per Handle slot: unused, panicked, open, finalizing, committed, aborted
  hptr,       \* Handle.handle : the wrapped handle_t pointer
  requested,  \* Handle.requested
  blocks,     \* Handle.blocks : Vec<u64>
  dirtied,    \* ghost: block identifiers passed to journal_write
  starts,     \* ghost: host rs_jbd2_journal_start calls per slot
  startRet,   \* ghost: what rs_jbd2_journal_start returned per slot
  stops,      \* ghost: host rs_jbd2_journal_stop calls per Handle
  stopRes,    \* `res` of Drop for Handle
  ncalls,     \* ghost: Handle method calls so far
  last,       \* ghost: the latest Handle method call and what it did
  objs,       \* kernel-object wrapper values: [state, kind, res]
  acquired,   \* ghost: host acquisitions (rs_sb_bread, rs_get_semaphore)
  released,   \* ghost: host release calls per acquired resource
  list,       \* scenario: the block list
  accReqs,    \* scenario: host access requests the caller observed
  pc,         \* scenario: position of the caller [phase, i]
  cbytes,     \* the byte slice handed to CStr::from_bytes_with_nul
  cres,       \* what came of it: [step, ok, err, len]
  bud         \* a u32 budget through begin_op: [step, x, arg, stored, n, over]

jvars == <<journal, newCalls, destroys>>
hvars == <<status, hptr, requested, blocks, dirtied, starts, startRet, stops,
           stopRes, ncalls, last>>
kvars == <<objs, acquired, released>>
svars == <<list, accReqs, pc>>
cvars == <<cbytes, cres>>
bvars == <<bud>>
vars == <<journal, newCalls, destroys, status, hptr, requested, blocks, dirtied, starts,
          startRet, stops, stopRes, ncalls, last, objs, acquired, released,
          list, accReqs, pc, cbytes, cres, bud>>

\* ------------------------------------------------------------ helpers
\* ptr.is_null()
is_null(p) == p = "null"

\* IS_ERR(ptr): the pointer lies in the host's encoded-error range
IS_ERR(p) == p = "err"

\* Vec::contains
contains(vec, x) == \E i \in DOMAIN vec : vec[i] = x

\* Vec::push
push(vec, x) == Append(vec, x)

SeqToSet(s) == {s[i] : i \in DOMAIN s}

\* ------------------------------------------------------------ Journal
\* Mutant of Journal::new: the status of rs_jbd2_journal_load is ignored
Journal_new_noload(initRet, loadRet) ==
  /\ journal.opt = "unborn"
  /\ IF is_null(initRet)
     THEN /\ newCalls' = <<"init_dev">>
          /\ journal' = [opt |-> "None", raw |-> "null",
                         initRet |-> initRet, loadRet |-> 0]
     ELSE /\ newCalls' = <<"init_dev", "load", "set_barrier", "set_async_commit">>
          /\ journal' = [opt |-> "Some", raw |-> initRet,
                         initRet |-> initRet, loadRet |-> loadRet]
  /\ UNCHANGED <<destroys, hvars>>

\* Journal::new
Journal_new(initRet, loadRet) ==
  /\ journal.opt = "unborn"
  /\ IF is_null(initRet)
     THEN /\ newCalls' = <<"init_dev">>
          /\ journal' = [opt |-> "None", raw |-> "null",
                         initRet |-> initRet, loadRet |-> 0]
     ELSE IF loadRet # 0
     THEN /\ newCalls' = <<"init_dev", "load">>
          /\ journal' = [opt |-> "None", raw |-> "null",
                         initRet |-> initRet, loadRet |-> loadRet]
     ELSE /\ newCalls' = <<"init_dev", "load", "set_barrier", "set_async_commit">>
          /\ journal' = [opt |-> "Some", raw |-> initRet,
                         initRet |-> initRet, loadRet |-> loadRet]
  /\ UNCHANGED <<destroys, hvars>>

\* Journal::begin_op.  Slot h stands for the h-th call; a null handle_t
\* panics and no Handle exists.
begin_op(h, nblocks, ret) ==
  /\ journal.opt = "Some"
  /\ status[h] = "unused"
  /\ \A g \in Handles : g < h => status[g] # "unused"
  /\ starts' = [starts EXCEPT ![h] = @ + 1]
  /\ startRet' = [startRet EXCEPT ![h] = ret]
  /\ IF is_null(ret)
     THEN /\ status' = [status EXCEPT ![h] = "panicked"]
          /\ UNCHANGED <<hptr, requested, blocks>>
     ELSE /\ status' = [status EXCEPT ![h] = "open"]
          /\ hptr' = [hptr EXCEPT ![h] = ret]
          /\ requested' = [requested EXCEPT ![h] = nblocks]
          /\ blocks' = [blocks EXCEPT ![h] = <<>>]
  /\ UNCHANGED <<jvars, dirtied, stops, stopRes, ncalls, last>>

\* What a Journal method call did, in the form of a Handle method call
JournalCall(op, hret, ret) ==
  [h |-> 0, op |-> op, b |-> 0, host |-> TRUE, hret |-> hret, ret |-> ret,
   report |-> FALSE, was |-> FALSE, rep |-> FALSE, phost |-> FALSE]

\* Mutant of force_commit: the host's status is dropped and 0 returned
force_commit_discard(r) ==
  /\ journal.opt = "Some"
  /\ ncalls' = ncalls + 1
  /\ last' = JournalCall("force_commit", r, 0)
  /\ UNCHANGED <<jvars, status, hptr, requested, blocks, dirtied, starts,
                 startRet, stops, stopRes>>

\* Journal::force_commit; r is the status the host returns
force_commit(r) ==
  /\ journal.opt = "Some"
  /\ ncalls' = ncalls + 1
  /\ last' = JournalCall("force_commit", r, r)
  /\ UNCHANGED <<jvars, status, hptr, requested, blocks, dirtied, starts,
                 startRet, stops, stopRes>>

\* Journal::destroy: takes &self, so the Journal value outlives the call
destroy ==
  /\ journal.opt = "Some"
  /\ destroys' = destroys + 1
  /\ UNCHANGED <<journal, newCalls, hvars>>

\* ------------------------------------------------------------ Handle
\* What a Handle method call did, as seen at the foreign-function boundary:
\* host = the host function was called, hret = its status, ret = the
\* method's return value, was = the block was in Handle.blocks before the
\* call, rep = the previous call was the same method on the same Handle and
\* block (phost = that call reached the host).
Call(op, h, b, host, hret, ret, report) ==
  [h |-> h, op |-> op, b |-> b, host |-> host, hret |-> hret, ret |-> ret,
   report |-> report, was |-> contains(blocks[h], b),
   rep |-> (last.op = op /\ last.h = h /\ last.b = b),
   phost |-> (last.op = op /\ last.h = h /\ last.b = b /\ last.host)]

\* Mutant of get_write_access: the block is pushed when the host is called
get_write_access_recording(h, b, r) ==
  /\ status[h] = "open"
  /\ ncalls' = ncalls + 1
  /\ IF contains(blocks[h], b)
     THEN /\ last' = Call("get_write_access", h, b, FALSE, 0, 0, FALSE)
          /\ UNCHANGED blocks
     ELSE /\ last' = Call("get_write_access", h, b, TRUE, r, r, FALSE)
          /\ blocks' = [blocks EXCEPT ![h] = push(@, b)]
  /\ UNCHANGED <<jvars, status, hptr, requested, dirtied, starts,
                 startRet, stops, stopRes>>

\* Handle::get_write_access; r is the status the host returns if called
get_write_access(h, b, r) ==
  /\ status[h] = "open"
  /\ ncalls' = ncalls + 1
  /\ IF contains(blocks[h], b)
     THEN last' = Call("get_write_access", h, b, FALSE, 0, 0, FALSE)
     ELSE last' = Call("get_write_access", h, b, TRUE, r, r, FALSE)
  /\ UNCHANGED <<jvars, status, hptr, requested, blocks, dirtied, starts,
                 startRet, stops, stopRes>>

\* Mutant of get_create_access: no look-up in Handle.blocks
get_create_access_nodedup(h, b, r) ==
  /\ status[h] = "open"
  /\ ncalls' = ncalls + 1
  /\ last' = Call("get_create_access", h, b, TRUE, r, r, FALSE)
  /\ UNCHANGED <<jvars, status, hptr, requested, blocks, dirtied, starts,
                 startRet, stops, stopRes>>

\* Mutant of get_create_access: the block is pushed when the host returned 0
get_create_access_recording(h, b, r) ==
  /\ status[h] = "open"
  /\ ncalls' = ncalls + 1
  /\ IF contains(blocks[h], b)
     THEN /\ last' = Call("get_create_access", h, b, FALSE, 0, 0, FALSE)
          /\ UNCHANGED blocks
     ELSE /\ last' = Call("get_create_access", h, b, TRUE, r, r, FALSE)
          /\ blocks' = [blocks EXCEPT ![h] = IF r = 0 THEN push(@, b) ELSE @]
  /\ UNCHANGED <<jvars, status, hptr, requested, dirtied, starts,
                 startRet, stops, stopRes>>

\* Handle::get_create_access
get_create_access(h, b, r) ==
  /\ status[h] = "open"
  /\ ncalls' = ncalls + 1
  /\ IF contains(blocks[h], b)
     THEN last' = Call("get_create_access", h, b, FALSE, 0, 0, FALSE)
     ELSE last' = Call("get_create_access", h, b, TRUE, r, r, FALSE)
  /\ UNCHANGED <<jvars, status, hptr, requested, blocks, dirtied, starts,
                 startRet, stops, stopRes>>

\* Mutant of journal_write: the block is pushed without the contains test
journal_write_nodedup(h, b, r) ==
  /\ status[h] = "open"
  /\ ncalls' = ncalls + 1
  /\ blocks' = [blocks EXCEPT ![h] = push(@, b)]
  /\ dirtied' = [dirtied EXCEPT ![h] = @ \cup {b}]
  /\ last' = Call("journal_write", h, b, TRUE, r, r,
                  Len(blocks'[h]) > requested[h])
  /\ UNCHANGED <<jvars, status, hptr, requested, starts, startRet, stops,
                 stopRes>>

\* Mutant of journal_write: the budget test is >= instead of >
journal_write_ge(h, b, r) ==
  /\ status[h] = "open"
  /\ ncalls' = ncalls + 1
  /\ blocks' = [blocks EXCEPT ![h] =
                  IF ~contains(@, b) THEN push(@, b) ELSE @]
  /\ dirtied' = [dirtied EXCEPT ![h] = @ \cup {b}]
  /\ last' = Call("journal_write", h, b, TRUE, r, r,
                  Len(blocks'[h]) >= requested[h])
  /\ UNCHANGED <<jvars, status, hptr, requested, starts, startRet, stops,
                 stopRes>>

\* Mutant of journal_write: the registered list is one list shared by the
\* open Handles of the Journal
journal_write_shared(h, b, r) ==
  /\ status[h] = "open"
  /\ ncalls' = ncalls + 1
  /\ blocks' = [g \in Handles |->
                  IF status[g] = "open" /\ ~contains(blocks[g], b)
                  THEN push(blocks[g], b) ELSE blocks[g]]
  /\ dirtied' = [dirtied EXCEPT ![h] = @ \cup {b}]
  /\ last' = Call("journal_write", h, b, TRUE, r, r,
                  Len(blocks'[h]) > requested[h])
  /\ UNCHANGED <<jvars, status, hptr, requested, starts, startRet, stops,
                 stopRes>>

\* Mutant of journal_write: a new block replaces the list instead of being
\* appended to it
journal_write_replace(h, b, r) ==
  /\ status[h] = "open"
  /\ ncalls' = ncalls + 1
  /\ blocks' = [blocks EXCEPT ![h] =
                  IF ~contains(@, b) THEN <<b>> ELSE @]
  /\ dirtied' = [dirtied EXCEPT ![h] = @ \cup {b}]
  /\ last' = Call("journal_write", h, b, TRUE, r, r,
                  Len(blocks'[h]) > requested[h])
  /\ UNCHANGED <<jvars, status, hptr, requested, starts, startRet, stops,
                 stopRes>>

\* Mutant of journal_write: the block is pushed after the host call, and only
\* when the host returned 0
journal_write_after_host(h, b, r) ==
  /\ status[h] = "open"
  /\ ncalls' = ncalls + 1
  /\ blocks' = [blocks EXCEPT ![h] =
                  IF r = 0 /\ ~contains(@, b) THEN push(@, b) ELSE @]
  /\ dirtied' = [dirtied EXCEPT ![h] = @ \cup {b}]
  /\ last' = Call("journal_write", h, b, TRUE, r, r,
                  Len(blocks'[h]) > requested[h])
  /\ UNCHANGED <<jvars, status, hptr, requested, starts, startRet, stops,
                 stopRes>>

\* Handle::journal_write
journal_write(h, b, r) ==
  /\ status[h] = "open"
  /\ ncalls' = ncalls + 1
  /\ blocks' = [blocks EXCEPT ![h] =
                  IF ~contains(@, b) THEN push(@, b) ELSE @]
  /\ dirtied' = [dirtied EXCEPT ![h] = @ \cup {b}]
  /\ last' = Call("journal_write", h, b, TRUE, r, r,
                  Len(blocks'[h]) > requested[h])
  /\ UNCHANGED <<jvars, status, hptr, requested, starts, startRet, stops,
                 stopRes>>

\* Drop for Handle, up to the return of rs_jbd2_journal_stop
Handle_drop(h, res) ==
  /\ status[h] = "open"
  /\ status' = [status EXCEPT ![h] = "finalizing"]
  /\ stops' = [stops EXCEPT ![h] = @ + 1]
  /\ stopRes' = [stopRes EXCEPT ![h] = res]
  /\ UNCHANGED <<jvars, hptr, requested, blocks, dirtied, starts, startRet,
                 ncalls, last>>

\* Mutant of Drop for Handle: a failed stop is tried once more
Handle_drop_end_restop(h) ==
  /\ status[h] = "finalizing"
  /\ status' = [status EXCEPT ![h] =
                  IF stopRes[h] = 0 THEN "committed" ELSE "aborted"]
  /\ stops' = [stops EXCEPT ![h] = IF stopRes[h] = 0 THEN @ ELSE @ + 1]
  /\ UNCHANGED <<jvars, hptr, requested, blocks, dirtied, starts, startRet,
                 stopRes, ncalls, last>>

\* Mutant of Drop for Handle: after a failed stop the Handle is usable again
Handle_drop_end_reopen(h) ==
  /\ status[h] = "finalizing"
  /\ status' = [status EXCEPT ![h] =
                  IF stopRes[h] = 0 THEN "committed" ELSE "open"]
  /\ UNCHANGED <<jvars, hptr, requested, blocks, dirtied, starts, startRet,
                 stops, stopRes, ncalls, last>>

\* Mutant of Drop for Handle: a failed stop is ignored and drop returns
Handle_drop_end_swallow(h) ==
  /\ status[h] = "finalizing"
  /\ status' = [status EXCEPT ![h] = "committed"]
  /\ UNCHANGED <<jvars, hptr, requested, blocks, dirtied, starts, startRet,
                 stops, stopRes, ncalls, last>>

\* Drop for Handle, after rs_jbd2_journal_stop: return, or `loop {}`
Handle_drop_end(h) ==
  /\ status[h] = "finalizing"
  /\ status' = [status EXCEPT ![h] =
                  IF stopRes[h] = 0 THEN "committed" ELSE "aborted"]
  /\ UNCHANGED <<jvars, hptr, requested, blocks, dirtied, starts, startRet,
                 stops, stopRes, ncalls, last>>

\* ------------------------------------------------------------ kobj
\* def_kernel_obj_type!: $ref_name::from_raw(ptr) on a pointer the host has
\* just handed out (rs_sb_bread for a buffer_head, rs_get_semaphore for a
\* semaphore, rs_get_wait_queue_head for a wait queue head).  Wrapper slots
\* are taken in order.
from_raw(w, kind) ==
  /\ objs[w].state = "free"
  /\ \A v \in Wrappers : v < w => objs[v].state # "free"
  /\ acquired' = acquired + 1
  /\ released' = Append(released, 0)
  /\ objs' = [objs EXCEPT ![w] =
                [state |-> "live", kind |-> kind, res |-> acquired + 1]]

\* #[derive(Clone)] on the wrapper struct: the copy holds the same pointer
clone(w, c) ==
  /\ objs[w].state = "live"
  /\ objs[c].state = "free"
  /\ \A v \in Wrappers : v < c => objs[v].state # "free"
  /\ objs' = [objs EXCEPT ![c] = objs[w]]
  /\ UNCHANGED <<acquired, released>>

\* def_kobj_op!(RsBufferHead, brelse, __brelse, ()) and
\* def_kobj_op!(RsRwSemaphore, put, rs_put_semaphore, ()): the public
\* method passes self.get_raw() to the host's release function.
\* RsWaitQueueHead has wake_up and wait_event only.
brelse(w) ==
  /\ objs[w].state = "live"
  /\ objs[w].kind \in Releasing
  /\ released' = [released EXCEPT ![objs[w].res] = @ + 1]
  /\ UNCHANGED <<objs, acquired>>

\* A wrapper goes out of scope.  Drop for RsBufferHead / Drop for
\* RsRwSemaphore: self.brelse() / self.put(); RsWaitQueueHead has no Drop
\* impl, its value is just forgotten.
kobj_drop(w) ==
  /\ objs[w].state = "live"
  /\ released' = IF objs[w].kind \in Releasing
                 THEN [released EXCEPT ![objs[w].res] = @ + 1]
                 ELSE released
  /\ objs' = [objs EXCEPT ![w].state = "dropped"]
  /\ UNCHANGED acquired

\* ------------------------------------------------------------ CStr
\* The `for (iter, byte) in bytes.iter().enumerate()` loop of
\* from_bytes_with_nul: the 0-based index of the first zero byte at or after
\* position i, or -1 for nul_pos = None.
RECURSIVE find_nul(_, _)
find_nul(bytes, i) ==
  IF i > Len(bytes) THEN -1
  ELSE IF bytes[i] = 0 THEN i - 1
  ELSE find_nul(bytes, i + 1)

\* Mutant of from_bytes_with_nul: only the final byte is examined
from_bytes_with_nul_final(bytes) ==
  IF Len(bytes) > 0 /\ bytes[Len(bytes)] = 0
  THEN [ok |-> TRUE, err |-> "none"]
  ELSE [ok |-> FALSE, err |-> "EIO"]

\* CStr::from_bytes_with_nul(bytes): Ok(CStr) or Err(Error::EIO)
from_bytes_with_nul(bytes) ==
  LET nul_pos == find_nul(bytes, 1) IN
    IF nul_pos # -1
    THEN IF nul_pos + 1 # Len(bytes)
         THEN [ok |-> FALSE, err |-> "EIO"]
         ELSE [ok |-> TRUE, err |-> "none"]
    ELSE [ok |-> FALSE, err |-> "EIO"]

\* CStr::len: `while *ptr != 0 { i += 1; ptr = ptr.offset(1) }` over the
\* memory the CStr points at, which is the slice it was made from
RECURSIVE CStr_len(_, _)
CStr_len(bytes, i) ==
  IF bytes[i + 1] # 0 THEN CStr_len(bytes, i + 1) ELSE i

\* A caller hands a slice to from_bytes_with_nul
CStr_make ==
  /\ cres.step = "off"
  /\ cres' = [cres EXCEPT !.step = "made",
                          !.ok = from_bytes_with_nul(cbytes).ok,
                          !.err = from_bytes_with_nul(cbytes).err]
  /\ UNCHANGED cbytes

\* The caller asks the CStr it obtained for its length
CStr_measure ==
  /\ cres.step = "made" /\ cres.ok
  /\ cres' = [cres EXCEPT !.step = "measured", !.len = CStr_len(cbytes, 0)]
  /\ UNCHANGED cbytes

\* ------------------------------------------------------------ budget
\* `blocks as i32` in begin_op: the 32 bits of the u32 read as two's
\* complement
as_i32(x) ==
  (IF x.hi >= SignHalf THEN x.hi - HalfSpan ELSE x.hi) * HalfSpan + x.lo

\* `vec.len() > self.requested as usize` in journal_write: usize holds every
\* u32 value, and n is below 2^16
len_gt_requested(n, x) == x.hi = 0 /\ n > x.lo

\* begin_op, for what becomes of its `blocks` argument: it goes to
\* rs_jbd2_journal_start as `blocks as i32` and into Handle.requested as is
begin_op_budget ==
  /\ bud.step = "off"
  /\ bud' = [bud EXCEPT !.step = "started", !.arg = as_i32(bud.x),
                        !.stored = bud.x]

\* journal_write, for its over-budget test with n blocks in Handle.blocks
journal_write_budget(n) ==
  /\ bud.step = "started"
  /\ bud' = [bud EXCEPT !.step = "compared", !.n = n,
                        !.over = len_gt_requested(n, bud.stored)]

\* ------------------------------------------------------------ specification
InitJ ==
  /\ journal = [opt |-> "unborn", raw |-> "null", initRet |-> "null",
                loadRet |-> 0]
  /\ newCalls = <<>>
  /\ destroys = 0

InitH ==
  /\ status = [h \in Handles |-> "unused"]
  /\ hptr = [h \in Handles |-> "null"]
  /\ requested = [h \in Handles |-> 0]
  /\ blocks = [h \in Handles |-> <<>>]
  /\ dirtied = [h \in Handles |-> {}]
  /\ starts = [h \in Handles |-> 0]
  /\ startRet = [h \in Handles |-> "none"]
  /\ stops = [h \in Handles |-> 0]
  /\ stopRes = [h \in Handles |-> 0]
  /\ ncalls = 0
  /\ last = NoCall

InitK ==
  /\ objs = [w \in Wrappers |-> [state |-> "free", kind |-> "buf", res |-> 0]]
  /\ acquired = 0
  /\ released = <<>>

InitS ==
  /\ list = <<>>
  /\ accReqs = 0
  /\ pc = [phase |-> "off", i |-> 0]

InitC ==
  /\ cbytes = <<>>
  /\ cres = [step |-> "off", ok |-> FALSE, err |-> "none", len |-> 0]

NoBudget ==
  [step |-> "off", x |-> [hi |-> 0, lo |-> 0], arg |-> 0,
   stored |-> [hi |-> 0, lo |-> 0], n |-> 0, over |-> FALSE]

InitB == bud = NoBudget

Init == InitJ /\ InitH /\ InitK /\ InitS /\ InitC /\ InitB

\* The journal layer under free interleaving of the threads' calls
Next ==
  \/ \E p \in Ptrs, s \in HostStatus :
       Journal_new(p, s) /\ UNCHANGED <<kvars, svars, cvars, bvars>>
  \/ \E h \in Handles, n \in Budgets, p \in Ptrs :
       begin_op(h, n, p) /\ UNCHANGED <<kvars, svars, cvars, bvars>>
  \/ \E h \in Handles, b \in Blocks, r \in HostStatus :
       ncalls < MaxCalls /\ get_write_access(h, b, r) /\ UNCHANGED <<kvars, svars, cvars, bvars>>
  \/ \E h \in Handles, b \in Blocks, r \in HostStatus :
       ncalls < MaxCalls /\ get_create_access(h, b, r) /\ UNCHANGED <<kvars, svars, cvars, bvars>>
  \/ \E h \in Handles, b \in Blocks, r \in HostStatus :
       ncalls < MaxCalls /\ journal_write(h, b, r) /\ UNCHANGED <<kvars, svars, cvars, bvars>>
  \/ \E r \in HostStatus :
       ncalls < MaxCalls /\ force_commit(r) /\ UNCHANGED <<kvars, svars, cvars, bvars>>
  \/ \E h \in Handles, r \in HostStatus :
       Handle_drop(h, r) /\ UNCHANGED <<kvars, svars, cvars, bvars>>
  \/ \E h \in Handles :
       Handle_drop_end(h) /\ UNCHANGED <<kvars, svars, cvars, bvars>>

Spec == Init /\ [][Next]_vars

\* The Journal's lifetime: mount, operations begun and finalized, flushes
\* and teardown, in any order the methods' signatures allow
NextLife ==
  \/ \E p \in Ptrs, s \in HostStatus :
       Journal_new(p, s) /\ UNCHANGED <<kvars, svars, cvars, bvars>>
  \/ \E h \in Handles, n \in Budgets, p \in Ptrs :
       begin_op(h, n, p) /\ UNCHANGED <<kvars, svars, cvars, bvars>>
  \/ \E r \in HostStatus :
       ncalls < MaxCalls /\ force_commit(r) /\ UNCHANGED <<kvars, svars, cvars, bvars>>
  \/ destroys < MaxDestroys /\ destroy /\ UNCHANGED <<kvars, svars, cvars, bvars>>
  \/ \E h \in Handles, r \in HostStatus :
       Handle_drop(h, r) /\ UNCHANGED <<kvars, svars, cvars, bvars>>
  \/ \E h \in Handles :
       Handle_drop_end(h) /\ UNCHANGED <<kvars, svars, cvars, bvars>>

SpecLife == Init /\ [][NextLife]_vars

\* The kernel-object wrappers under any sequence of their operations
NextKobj ==
  \/ \E w \in Wrappers, k \in Kinds :
       from_raw(w, k) /\ UNCHANGED <<jvars, hvars, svars, cvars, bvars>>
  \/ \E w \in Wrappers, c \in Wrappers :
       clone(w, c) /\ UNCHANGED <<jvars, hvars, svars, cvars, bvars>>
  \/ \E w \in Wrappers :
       /\ objs[w].state = "live" /\ released[objs[w].res] < MaxReleases
       /\ brelse(w) /\ UNCHANGED <<jvars, hvars, svars, cvars, bvars>>
  \/ \E w \in Wrappers :
       kobj_drop(w) /\ UNCHANGED <<jvars, hvars, svars, cvars, bvars>>

SpecKobj == Init /\ [][NextKobj]_vars

\* CStr construction over every byte slice up to MaxBytes long
InitCStr ==
  /\ InitJ /\ InitH /\ InitK /\ InitS /\ InitB
  /\ cbytes \in ByteSeqs
  /\ cres = [step |-> "off", ok |-> FALSE, err |-> "none", len |-> 0]

NextCStr ==
  \/ CStr_make /\ UNCHANGED <<jvars, hvars, kvars, svars, bvars>>
  \/ CStr_measure /\ UNCHANGED <<jvars, hvars, kvars, svars, bvars>>

SpecCStr == InitCStr /\ [][NextCStr]_vars

\* begin_op's budget over u32 values around the edges of the i32 range
InitBudget ==
  /\ InitJ /\ InitH /\ InitK /\ InitS /\ InitC
  /\ \E x \in U32Edge : bud = [NoBudget EXCEPT !.x = x]

NextBudget ==
  \/ begin_op_budget /\ UNCHANGED <<jvars, hvars, kvars, svars, cvars>>
  \/ \E n \in 0..MaxLen :
       journal_write_budget(n) /\ UNCHANGED <<jvars, hvars, kvars, svars, cvars>>

SpecBudget == InitBudget /\ [][NextBudget]_vars

\* ------------------------------------------------------------ scenario
\* One caller running a whole operation on Handle 1: Journal::new, begin_op,
\* get_write_access for every block of `list` in order, journal_write for
\* every block of `list` in order, then the Handle goes out of scope.
BlockLists == UNION {[1..n -> Blocks] : n \in 0..MaxLen}

AfterAccess(i) ==
  IF i <= Len(list) THEN [phase |-> "access", i |-> i]
  ELSE IF Len(list) >= 1 THEN [phase |-> "dirty", i |-> 1]
  ELSE [phase |-> "drop", i |-> 0]

AfterDirty(i) ==
  IF i <= Len(list) THEN [phase |-> "dirty", i |-> i]
  ELSE [phase |-> "drop", i |-> 0]

InitScenario ==
  /\ InitJ /\ InitH /\ InitK /\ InitC /\ InitB
  /\ list \in BlockLists
  /\ accReqs = 0
  /\ pc = [phase |-> "new", i |-> 0]

NextScenario ==
  \/ /\ pc.phase = "new"
     /\ \E p \in Ptrs, s \in HostStatus : Journal_new(p, s)
     /\ pc' = [phase |-> IF journal'.opt = "Some" THEN "begin" ELSE "failed",
               i |-> 0]
     /\ UNCHANGED <<kvars, cvars, bvars, list, accReqs>>
  \/ /\ pc.phase = "begin"
     /\ \E n \in Budgets, p \in Ptrs : begin_op(1, n, p)
     /\ pc' = IF status'[1] = "open" THEN AfterAccess(1)
              ELSE [phase |-> "failed", i |-> 0]
     /\ UNCHANGED <<kvars, cvars, bvars, list, accReqs>>
  \/ /\ pc.phase = "access"
     /\ \E r \in HostStatus : get_write_access(1, list[pc.i], r)
     /\ accReqs' = accReqs + (IF last'.host THEN 1 ELSE 0)
     /\ pc' = AfterAccess(pc.i + 1)
     /\ UNCHANGED <<kvars, cvars, bvars, list>>
  \/ /\ pc.phase = "dirty"
     /\ \E r \in HostStatus : journal_write(1, list[pc.i], r)
     /\ pc' = AfterDirty(pc.i + 1)
     /\ UNCHANGED <<kvars, cvars, bvars, list, accReqs>>
  \/ /\ pc.phase = "drop"
     /\ \E r \in HostStatus : Handle_drop(1, r)
     /\ pc' = [phase |-> "dropping", i |-> 0]
     /\ UNCHANGED <<kvars, cvars, bvars, list, accReqs>>
  \/ /\ pc.phase = "dropping"
     /\ Handle_drop_end(1)
     /\ pc' = [phase |-> "done", i |-> 0]
     /\ UNCHANGED <<kvars, cvars, bvars, list, accReqs>>

SpecScenario == InitScenario /\ [][NextScenario]_vars

\* ------------------------------------------------------------ claims
Begun == {"open", "finalizing", "committed", "aborted"}
Finalized == {"finalizing", "committed", "aborted"}

\* C1 (as stated): of two get_write_access calls on one Handle for the same
\* block with no call in between, the first reaches the host and the second
\* returns 0 without a host call.
C1_SecondAccessSkipsHost ==
  (last.op = "get_write_access" /\ last.rep) =>
    (last.phost /\ ~last.host /\ last.ret = 0)

\* C1 (amended): get_write_access skips the host, returning 0, exactly when
\* the block was passed to an earlier journal_write on the Handle; otherwise
\* it returns the host's status.  Two calls in a row for the same block
\* therefore both reach the host or both skip it.
C1_AccessSkipsOnlyDirtied ==
  (last.op = "get_write_access") =>
    /\ last.host <=> (last.b \notin dirtied[last.h])
    /\ ~last.host => last.ret = 0
    /\ last.host => last.ret = last.hret
    /\ last.rep => (last.phost <=> last.host)

\* C1 witness: two get_write_access calls in a row for one block, both of
\* which reached the host.
C1_Witness ==
  last.op = "get_write_access" /\ last.rep /\ last.phost /\ last.host

\* C2 (as stated): get_create_access returns 0 without a host call for a
\* registered block; otherwise it calls the host and the block is in
\* Handle.blocks afterwards.
C2_CreateAccessRecords ==
  (last.op = "get_create_access") =>
    /\ last.was => (~last.host /\ last.ret = 0)
    /\ ~last.was => (last.host /\ contains(blocks[last.h], last.b))

\* C2 (amended): get_create_access returns 0 without a host call for a block
\* already in Handle.blocks (one passed to journal_write before); otherwise
\* it calls the host, returns its status, and Handle.blocks still does not
\* hold the block.
C2_CreateAccessDedup ==
  (last.op = "get_create_access") =>
    /\ last.was <=> (last.b \in dirtied[last.h])
    /\ last.was => (~last.host /\ last.ret = 0)
    /\ ~last.was => /\ last.host
                    /\ last.ret = last.hret
                    /\ ~contains(blocks[last.h], last.b)

\* C2 witness: a get_create_access that was delegated to the host and left
\* the block unregistered.
C2_Witness ==
  /\ last.op = "get_create_access" /\ last.host /\ last.ret = -5
  /\ ~contains(blocks[last.h], last.b)

ScenarioOver == pc.phase \in {"drop", "dropping", "done"}

\* C3 (as stated): after get_write_access over a list and journal_write over
\* the same list, Handle.blocks holds exactly the distinct blocks of the list
\* and the host saw as many access requests as there are distinct blocks.
C3_AccessRequestsDistinct ==
  ScenarioOver =>
    /\ SeqToSet(blocks[1]) = SeqToSet(list)
    /\ Len(blocks[1]) = Cardinality(SeqToSet(list))
    /\ accReqs = Cardinality(SeqToSet(list))

\* C3 (amended): after get_write_access over a list and journal_write over
\* the same list, Handle.blocks holds exactly the distinct blocks of the
\* list, each once, and the host saw one access request per element of the
\* list (3 for [5,5,7]).
C3_TrackedDistinctAccessAll ==
  ScenarioOver =>
    /\ SeqToSet(blocks[1]) = SeqToSet(list)
    /\ Len(blocks[1]) = Cardinality(SeqToSet(list))
    /\ accReqs = Len(list)

\* C3 witness: the list [5,5,7] with budget 3 ends with 2 tracked blocks and
\* 3 host access requests.
C3_Witness ==
  /\ ScenarioOver /\ list = <<5, 5, 7>> /\ requested[1] = 3
  /\ blocks[1] = <<5, 7>> /\ accReqs = 3

\* C4: every journal_write calls the host and returns its status, leaves the
\* Handle open, and reports over-budget exactly when the number of distinct
\* blocks passed to journal_write so far exceeds the Handle's budget.
C4_BudgetAdvisory ==
  [][(ncalls' = ncalls + 1 /\ last'.op = "journal_write") =>
       /\ last'.host
       /\ last'.ret = last'.hret
       /\ status'[last'.h] = "open"
       /\ requested'[last'.h] = requested[last'.h]
       /\ last'.report <=>
            (Cardinality(dirtied'[last'.h]) > requested'[last'.h])]_vars

\* C4 witness: a journal_write that took the Handle over its budget, was
\* reported, returned the host's nonzero status and left the Handle open.
C4_Witness ==
  /\ last.op = "journal_write" /\ last.report /\ last.host /\ last.ret = -5
  /\ status[last.h] = "open"
  /\ Cardinality(dirtied[last.h]) = requested[last.h] + 1

\* C5 (as stated): no acquired buffer or semaphore is released twice, and
\* once no wrapper of it is left it has been released exactly once.
C5_ExactlyOnceRelease ==
  \A r \in 1..acquired :
    (\E w \in Wrappers : objs[w].res = r /\ objs[w].kind \in {"buf", "sem"}) =>
      /\ released[r] <= 1
      /\ (\A w \in Wrappers : ~(objs[w].state = "live" /\ objs[w].res = r))
           => released[r] = 1

\* C6: a Handle has caused no rs_jbd2_journal_stop call while it is open and
\* exactly one from the moment its scope has ended; a refused begin_op
\* causes none.
C6_ExactlyOneStop ==
  \A h \in Handles :
    stops[h] = (IF status[h] \in Finalized THEN 1 ELSE 0)

\* C6 witness: one Handle finalized with status 0 and another with an error
\* status, each after exactly one stop call.
C6_Witness ==
  /\ status[1] = "committed" /\ stops[1] = 1
  /\ status[2] = "aborted" /\ stops[2] = 1

\* C7: a Handle's state only moves unused -> open -> finalizing ->
\* committed | aborted (or unused -> panicked when begin_op fails); once it
\* is finalizing no Handle method call is made on it; its handle_t and
\* budget never change; it stems from exactly one rs_jbd2_journal_start.
C7_HandleStateMachine ==
  [][\A h \in Handles :
       /\ status'[h] # status[h] =>
            <<status[h], status'[h]>> \in
              {<<"unused", "open">>, <<"unused", "panicked">>,
               <<"open", "finalizing">>, <<"finalizing", "committed">>,
               <<"finalizing", "aborted">>}
       /\ status[h] \in Finalized => ~(ncalls' # ncalls /\ last'.h = h)
       /\ status[h] \in Begun =>
            (hptr'[h] = hptr[h] /\ requested'[h] = requested[h])
       /\ status'[h] \in Begun => starts'[h] = 1]_vars

\* C7 witness: a Handle on which calls were made has been finalized with an
\* error while the other has committed.
C7_Witness ==
  /\ status[1] = "aborted" /\ last.h = 1 /\ last.host
  /\ status[2] = "committed"

\* C8: Journal::new returns Some exactly when init_dev returned a non-null
\* pointer and load returned 0; then it has called init_dev, load,
\* set_barrier, set_async_commit in this order, once each; when it returns
\* None it has called neither set_barrier nor set_async_commit.
C8_JournalNew ==
  (journal.opt # "unborn") =>
    /\ journal.opt = "Some" <=>
         (~is_null(journal.initRet) /\ journal.loadRet = 0)
    /\ journal.opt = "Some" =>
         newCalls = <<"init_dev", "load", "set_barrier", "set_async_commit">>
    /\ journal.opt = "None" =>
         /\ newCalls \in {<<"init_dev">>, <<"init_dev", "load">>}
         /\ Len(newCalls) = 2 <=> ~is_null(journal.initRet)

\* C8 witness: Journal::new has returned None because load failed.
C8_Witness ==
  /\ journal.opt = "None" /\ ~is_null(journal.initRet)
  /\ journal.loadRet # 0 /\ newCalls = <<"init_dev", "load">>

\* C9 (as stated): when rs_jbd2_journal_start refuses (a null or an
\* encoded-error pointer), no Handle exists, no Handle method is called for
\* it and no rs_jbd2_journal_stop is issued.
C9_RefusalSurfaced ==
  \A h \in Handles :
    (starts[h] > 0 /\ (is_null(startRet[h]) \/ IS_ERR(startRet[h]))) =>
      (status[h] = "panicked" /\ stops[h] = 0 /\ last.h # h)

\* C10 (as stated): no pointer that is null or in the encoded-error range is
\* wrapped into a Journal or a Handle or passed back to the host.
C10_SentinelNeverWrapped ==
  /\ journal.opt = "Some" =>
       (~is_null(journal.raw) /\ ~IS_ERR(journal.raw))
  /\ Len(newCalls) >= 2 => ~IS_ERR(journal.initRet)
  /\ \A h \in Handles :
       status[h] \in Begun => (~is_null(hptr[h]) /\ ~IS_ERR(hptr[h]))

\* C11: force_commit always calls the host and returns exactly its status;
\* get_write_access, get_create_access and journal_write return exactly the
\* host's status whenever they call the host.
C11_StatusPropagated ==
  /\ last.op = "force_commit" => last.host
  /\ last.host => last.ret = last.hret

\* C11 witness: a force_commit whose flush failed has returned the host's
\* nonzero status.
C11_Witness ==
  last.op = "force_commit" /\ last.hret = -5 /\ last.ret = -5

\* C12 (as stated): rs_jbd2_journal_destroy is called at most once per
\* Journal, only when no Handle begun on it is still open or finalizing, and
\* no begin_op or force_commit follows it.
C12_DestroyOnceAfterHandles ==
  [][/\ destroys' <= 1
     /\ destroys' # destroys =>
          \A h \in Handles : status[h] \notin {"open", "finalizing"}
     /\ destroys >= 1 =>
          /\ starts' = starts
          /\ ~(ncalls' # ncalls /\ last'.op = "force_commit")]_vars

\* C13: when rs_jbd2_journal_stop returned 0 the drop returns (committed);
\* when it returned nonzero the thread enters `loop {}` (aborted) and stays
\* there for good; either way the drop hands no value to the caller.
C13_FinalizeOutcome ==
  [][\A h \in Handles :
       /\ (status[h] = "finalizing" /\ status'[h] # "finalizing") =>
            /\ status'[h] = (IF stopRes[h] = 0 THEN "committed" ELSE "aborted")
            /\ last' = last
       /\ status[h] = "aborted" => status'[h] = "aborted"
       /\ status'[h] = "committed" => stopRes'[h] = 0
       /\ status'[h] = "aborted" => stopRes'[h] # 0]_vars

\* C13 witness: one thread spins after a stop that returned -5 while the
\* drop of the other Handle, whose stop returned 0, has returned.
C13_Witness ==
  /\ status[1] = "aborted" /\ stopRes[1] = -5
  /\ status[2] = "committed" /\ stopRes[2] = 0

\* C14: from_bytes_with_nul succeeds exactly when the slice holds one zero
\* byte and that byte is its last; every other slice (empty, no zero byte,
\* interior zero byte) fails with EIO; on success len() is the slice length
\* minus one.
C14_CStrValidation ==
  LET zeros == {i \in 1..Len(cbytes) : cbytes[i] = 0} IN
    /\ cres.step # "off" =>
         /\ cres.ok <=> /\ Cardinality(zeros) = 1
                        /\ zeros = {Len(cbytes)}
         /\ ~cres.ok => cres.err = "EIO"
    /\ cres.step = "measured" => cres.len = Len(cbytes) - 1

\* C14 witness: the slice [h,e,l,l,o,0] gave a CStr of length 5
C14_Witness ==
  /\ cbytes = <<104, 101, 108, 108, 111, 0>>
  /\ cres.step = "measured" /\ cres.ok /\ cres.len = 5

\* C15 (as stated): once every wrapper of an acquired wait queue head has
\* gone out of scope, rs_put_wait_queue_head has been called exactly once
\* for it, and never more than once.
C15_WaitQueueReleasedOnce ==
  \A r \in 1..acquired :
    (\E w \in Wrappers : objs[w].res = r /\ objs[w].kind = "wq") =>
      /\ released[r] <= 1
      /\ (\A w \in Wrappers : objs[w].res = r => objs[w].state = "dropped")
           => released[r] = 1

\* What belongs to one Handle: its state, its fields, and the host calls
\* made for it
PerHandle(h) ==
  <<status[h], hptr[h], requested[h], blocks[h], starts[h], stops[h],
    stopRes[h]>>

\* C16: under every interleaving a step changes at most one Handle; a
\* Handle's registered blocks, budget and handle_t pointer change only by
\* its own begin_op or by a method call on it; and whether a method call
\* reaches the host depends on the blocks registered on that Handle alone.
C16_HandlesIndependent ==
  [][/\ Cardinality({h \in Handles : PerHandle(h)' # PerHandle(h)}) <= 1
     /\ \A h \in Handles :
          <<blocks[h], requested[h], hptr[h]>>' # <<blocks[h], requested[h], hptr[h]>>
            => \/ status[h] = "unused" /\ status'[h] = "open"
               \/ ncalls' = ncalls + 1 /\ last'.h = h
     /\ (ncalls' = ncalls + 1 /\ last'.op \in {"get_write_access", "get_create_access"})
          => (last'.host <=> ~contains(blocks[last'.h], last'.b))
     /\ (ncalls' = ncalls + 1 /\ last'.op = "journal_write")
          => last'.host]_vars

\* C16 witness: block 5 is registered on Handle 1, both Handles are open,
\* and a get_write_access for block 5 on Handle 2 has reached the host.
C16_Witness ==
  /\ status[1] = "open" /\ status[2] = "open"
  /\ contains(blocks[1], 5) /\ ~contains(blocks[2], 5)
  /\ last.op = "get_write_access" /\ last.h = 2 /\ last.b = 5 /\ last.host

\* C17: Handle.blocks never holds an identifier twice, is empty when
\* begin_op returns the Handle, only ever grows at its end, and holds
\* exactly the identifiers passed to journal_write on the Handle.
C17_RegisteredSet ==
  [][\A h \in Handles :
       /\ Cardinality(SeqToSet(blocks'[h])) = Len(blocks'[h])
       /\ SeqToSet(blocks'[h]) = dirtied'[h]
       /\ (status[h] = "unused" /\ status'[h] = "open") => blocks'[h] = <<>>
       /\ Len(blocks'[h]) >= Len(blocks[h])
       /\ SubSeq(blocks'[h], 1, Len(blocks[h])) = blocks[h]]_vars

\* C17 witness: journal_write for 5, 7 and 5 again left the list <<5, 7>>.
C17_Witness ==
  /\ last.op = "journal_write" /\ last.was /\ last.b = 5
  /\ blocks[last.h] = <<5, 7>>

\* C18: get_write_access and get_create_access leave Handle.blocks,
\* Handle.requested and Handle.handle as they were, whatever the host
\* returns, and skip the host call exactly when the block was passed to an
\* earlier journal_write on the same Handle.
C18_AccessLeavesHandle ==
  [][(ncalls' = ncalls + 1 /\ last'.op \in {"get_write_access", "get_create_access"})
       => /\ blocks' = blocks /\ requested' = requested /\ hptr' = hptr
          /\ dirtied' = dirtied
          /\ ~last'.host <=> last'.b \in dirtied[last'.h]
          /\ ~last'.host => last'.ret = 0]_vars

\* C18 witness: a get_create_access that the host answered with 0 was made
\* again for the same block and reached the host again, answered -5, on a
\* Handle whose list is still empty.
C18_Witness ==
  /\ last.op = "get_create_access" /\ last.rep /\ last.phost
  /\ last.host /\ last.ret = -5
  /\ blocks[last.h] = <<>>

\* C19: every journal_write calls the host, also for a block already in
\* Handle.blocks and when over budget, and the block is in Handle.blocks
\* when the call returns whatever status the host gave.
C19_DirtyAlwaysReachesHost ==
  [][(ncalls' = ncalls + 1 /\ last'.op = "journal_write")
       => /\ last'.host
          /\ last'.ret = last'.hret
          /\ contains(blocks'[last'.h], last'.b)]_vars

\* C19 witness: a journal_write for a block not yet registered, over the
\* budget, to which the host answered -5; the block is registered.
C19_Witness ==
  /\ last.op = "journal_write" /\ ~last.was /\ last.report
  /\ last.host /\ last.hret = -5
  /\ contains(blocks[last.h], last.b)

\* C20 (as stated): when Journal::new has returned None although
\* rs_jbd2_journal_init_dev gave it a journal, it has passed that journal to
\* rs_jbd2_journal_destroy.
C20_NoLeakedJournal ==
  (journal.opt = "None" /\ journal.initRet = "valid") =>
    (destroys >= 1 \/ contains(newCalls, "destroy"))

\* C21 (as stated): for every u32 budget the count begin_op hands to
\* rs_jbd2_journal_start is not negative and is the same number as the
\* budget kept in Handle.requested, which is the budget begin_op was given.
C21_BudgetUnchanged ==
  (bud.step # "off") =>
    /\ bud.stored = bud.x
    /\ bud.arg >= 0
    /\ bud.arg \div HalfSpan = bud.stored.hi
    /\ bud.arg % HalfSpan = bud.stored.lo

====
